---- MODULE Spec2Model ----
(***************************************************************************)
(* The chat path (chatController.sendMessage, ChatModel.processMessage,    *)
(* addMessage, getChat, getRelevantContext) over the shared store, the     *)
(* chunker (DocumentModel.splitTextIntoChunks), and the ingestion path     *)
(* (the upload route, documentController.uploadDocument,                   *)
(* DocumentModel.uploadDocument and createEmbeddings).                     *)
(*                                                                         *)
(* Text is a sequence of one-character strings.  A store table is a set of *)
(* rows.  Every await of the code is one step of a request; requests       *)
(* interleave at their awaits.                                             *)
(***************************************************************************)
EXTENDS Integers, Sequences, FiniteSets, TLC

VARIABLES
    chats,                \* table chats: rows [id, user_id, document_id, updated_at]
    chat_messages,        \* table chat_messages: rows [id, chat_id, role, content, created_at]
    document_embeddings,  \* table document_embeddings
    clock,                \* the time of the last store write
    pc,                   \* pc[p]: the await a request stands at
    req,                  \* req[p]: req.params.id, userId, req.body.message
    loc,                  \* loc[p]: the local variables of processMessage / getRelevantContext
    res,                  \* res[p]: the response the controller sent
    obs,                  \* obs[p]: what the request did so far (observation only)
    text, chunkSize,      \* splitTextIntoChunks: the arguments
    sentences, idx,       \* splitTextIntoChunks: text.split(...) and the loop position
    currentChunk, chunks, \* splitTextIntoChunks: the locals
    cpc,                  \* splitTextIntoChunks: position
    documents,            \* table documents: rows [id, user_id, filename, content]
    upc,                  \* upc[w]: the await an upload stands at
    ureq,                 \* ureq[w]: how uploadDocument is reached, the file and its mimetype
    uloc,                 \* uloc[w]: the local variables of uploadDocument / createEmbeddings
    ures,                 \* ures[w]: the response sent, or what uploadDocument returned or threw
    uobs,                 \* uobs[w]: what the upload did so far (observation only)
    returned,             \* splitTextIntoChunks: what earlier calls with these arguments returned
    NODE_ENV              \* process.env.NODE_ENV

vars == <<chats, chat_messages, document_embeddings, clock, pc, req, loc, res, obs,
          text, chunkSize, sentences, idx, currentChunk, chunks, cpc,
          documents, upc, ureq, uloc, ures, uobs, returned, NODE_ENV>>

chatVars == <<chats, chat_messages, document_embeddings, clock, pc, req, loc, res, obs>>
chunkVars == <<text, chunkSize, sentences, idx, currentChunk, chunks, cpc, returned>>
uploadVars == <<documents, upc, ureq, uloc, ures, uobs>>
envVars == <<NODE_ENV>>
\* what an upload leaves alone of the chat path: all but document_embeddings
chatRequestVars == <<chats, chat_messages, clock, pc, req, loc, res, obs>>

----------------------------------------------------------------------------
(* Generic helpers *)

Null == [null |-> TRUE]

Min(a, b) == IF a <= b THEN a ELSE b

Range(s) == {s[i] : i \in 1..Len(s)}

\* the id the store gives a new row of a table
NewId(rows) == IF rows = {} THEN 1
               ELSE 1 + (CHOOSE n \in {r.id : r \in rows} : \A r \in rows : r.id <= n)

RECURSIVE JoinSeq(_, _)
\* Array.prototype.join: the items of parts with sep between consecutive items
JoinSeq(parts, sep) ==
    IF Len(parts) = 0 THEN <<>>
    ELSE IF Len(parts) = 1 THEN parts[1]
    ELSE parts[1] \o sep \o JoinSeq(Tail(parts), sep)

RECURSIVE SortByCreatedAt(_)
\* .order('created_at', { ascending: true }) on a set of rows
SortByCreatedAt(rows) ==
    IF rows = {} THEN <<>>
    ELSE LET first == CHOOSE r \in rows : \A o \in rows : r.created_at <= o.created_at
         IN  <<first>> \o SortByCreatedAt(rows \ {first})

----------------------------------------------------------------------------
(* The requests and the initial store *)

Procs == {"p1", "p2"}

Users == {"u1", "u2"}

\* the user the requests are made as (req.user?.id || req.body.userId)
RequestUsers == {"u1"}

\* request bodies: a message is text; the empty text is a missing message
Messages == {<<>>, <<"h", "i">>}

\* what the generative model may answer
ModelOutputs == {<<"o", "k">>}

\* the chat ids a request may name: chats 1 and 2 are the caller's, chat 3 is
\* another user's, 4 names no chat
RequestChatIds == {1, 2, 3, 4}

\* documents?.id of a chat row that joins no document
NoDocument == 0

InitChats ==
    { [id |-> 1, user_id |-> "u1", document_id |-> 1, updated_at |-> 2],
      [id |-> 2, user_id |-> "u1", document_id |-> NoDocument, updated_at |-> 0],
      [id |-> 3, user_id |-> "u2", document_id |-> 2, updated_at |-> 0] }

InitMessages ==
    { [id |-> 1, chat_id |-> 1, role |-> "user", content |-> <<"q">>, created_at |-> 1],
      [id |-> 2, chat_id |-> 1, role |-> "assistant", content |-> <<"a">>, created_at |-> 2] }

\* ChunkRow storing the vector with its two components exchanged
ChunkRowOtherVector(id, documentId, pos, content, embedding) ==
    [id |-> id, document_id |-> documentId, content |-> content,
     embedding |-> <<embedding[2], embedding[1]>>, ordinal |-> <<>>, pos |-> pos]

\* ChunkRow storing the row under the first document of the store
ChunkRowOtherDocument(id, documentId, pos, content, embedding) ==
    [id |-> id, document_id |-> 1, content |-> content,
     embedding |-> embedding, ordinal |-> <<>>, pos |-> pos]

\* One chunk row as DocumentModel.createEmbeddings inserts it: document_id, content and
\* embedding, and no ordinal (the column stays NULL, written <<>>).  pos is the
\* chunk's position in the chunker's output; it is no column, it is kept to state
\* the claims about ordinals.
ChunkRow(id, documentId, pos, content, embedding) ==
    [id |-> id, document_id |-> documentId, content |-> content,
     embedding |-> embedding, ordinal |-> <<>>, pos |-> pos]

\* Document 1 has seven chunks, two of them with the same embedding; document 2
\* shares vocabulary with document 1 (an embedding equal to one of document 1's).
InitEmbeddings ==
    { ChunkRow(1, 1, 0, <<"a", "0">>, <<1, 0>>),
      ChunkRow(2, 1, 1, <<"a", "1">>, <<1, 0>>),
      ChunkRow(3, 1, 2, <<"a", "2">>, <<4, 1>>),
      ChunkRow(4, 1, 3, <<"a", "3">>, <<3, 1>>),
      ChunkRow(5, 1, 4, <<"a", "4">>, <<2, 1>>),
      ChunkRow(6, 1, 5, <<"a", "5">>, <<3, 2>>),
      ChunkRow(7, 1, 6, <<"a", "6">>, <<0, 1>>),
      ChunkRow(8, 2, 0, <<"b", "0">>, <<1, 0>>),
      ChunkRow(9, 2, 1, <<"b", "1">>, <<0, 1>>) }

\* the content column of a documents row before it is written (NULL); it is no
\* text, every element of a text being one character
NoContent == <<"NULL">>

\* the uploads in flight
Uploads == {"w1"}

\* The documents the chats are about.  Their content is not read by any step; a
\* one-word content stands for the text their chunk rows were cut from.
InitDocuments ==
    { [id |-> 1, user_id |-> "u1", filename |-> "a.pdf", content |-> <<"a">>],
      [id |-> 2, user_id |-> "u2", filename |-> "b.pdf", content |-> <<"b">>] }

\* what the embedding model may return for a query: a vector near most of document
\* 1 (and equal to a vector of document 2), and a vector near no chunk
QueryEmbeddings == {<<1, 0>>, <<-1, 0>>}

----------------------------------------------------------------------------
(* The similarity query match_document_embeddings (a function of the store) *)

Dot(a, b) == a[1] * b[1] + a[2] * b[2]

\* the sign-carrying square of the dot product: cos(q, c) = sgn * sqrt(SSq / (|q|^2 |c|^2))
SSq(q, c) == LET d == Dot(q, c) IN IF d >= 0 THEN d * d ELSE -(d * d)

\* cos(q, c) >= tenths / 10, for tenths >= 0
CosineAtLeast(q, c, tenths) ==
    /\ Dot(q, c) >= 0
    /\ 100 * SSq(q, c) >= tenths * tenths * Dot(q, q) * Dot(c, c)

\* cos(q, c1) > cos(q, c2)
CosineGreater(q, c1, c2) == SSq(q, c1) * Dot(c2, c2) > SSq(q, c2) * Dot(c1, c1)

\* the stored ordinal of r1 is below that of r2; NULL compares with nothing
OrdinalLess(r1, r2) ==
    /\ r1.ordinal # <<>>
    /\ r2.ordinal # <<>>
    /\ r1.ordinal[1] < r2.ordinal[1]

\* r1 must come before r2 in the result: higher similarity, then lower stored ordinal
RanksBefore(q, r1, r2) ==
    \/ CosineGreater(q, r1.embedding, r2.embedding)
    \/ /\ ~CosineGreater(q, r2.embedding, r1.embedding)
       /\ OrdinalLess(r1, r2)

RECURSIVE RankedOrders(_, _)
\* the orders of rows that respect RanksBefore: each next row is one that no
\* remaining row must come before
RankedOrders(q, rows) ==
    IF rows = {} THEN {<<>>}
    ELSE UNION { {<<r>> \o s : s \in RankedOrders(q, rows \ {r})} :
                 r \in {x \in rows : \A y \in rows : ~RanksBefore(q, y, x)} }

\* The results the query may return: the rows of the document with similarity at
\* least the threshold, by descending similarity, ties by ascending ordinal, at most
\* match_count of them.  Rows the ordering does not separate come in any order.
match_document_embeddings(params, rows) ==
    LET q == params.query_embedding
        cand == {r \in rows :
                    /\ r.document_id = params.document_id
                    /\ CosineAtLeast(q, r.embedding, params.match_threshold)}
        n == Min(Cardinality(cand), params.match_count)
    IN  {SubSeq(s, 1, n) : s \in RankedOrders(q, cand)}

----------------------------------------------------------------------------
(* ChatModel: the pure parts *)

MatchThresholdTenths == 7
MatchCount == 5

\* RpcParams with the document id of another document
RpcParamsOtherDocument(documentId, queryEmbedding) ==
    [query_embedding |-> queryEmbedding,
     document_id |-> documentId + 1,
     match_threshold |-> MatchThresholdTenths,
     match_count |-> MatchCount]

\* RpcParams asking for one row more
RpcParamsOneMore(documentId, queryEmbedding) ==
    [query_embedding |-> queryEmbedding,
     document_id |-> documentId,
     match_threshold |-> MatchThresholdTenths,
     match_count |-> MatchCount + 1]

\* the argument object of supabase.rpc('match_document_embeddings', ...)
RpcParams(documentId, queryEmbedding) ==
    [query_embedding |-> queryEmbedding,
     document_id |-> documentId,
     match_threshold |-> MatchThresholdTenths,
     match_count |-> MatchCount]

BlankLine == <<"\n", "\n">>

\* data.map(item => item.content).join('\n\n')
ContextOf(data) == JoinSeq([i \in 1..Len(data) |-> data[i].content], BlankLine)

SystemPrefix == <<"You are a helpful assistant ... to inform your answer:\n">>
SystemSuffix == <<"\nIf the answer cannot be found in the document, say so clearly.">>

\* the system message: the template with ${context} filled in
SystemMessage(context) ==
    [role |-> "system", content |-> SystemPrefix \o context \o SystemSuffix]

\* messages.map(msg => ({ role: msg.role, content: msg.content }))
PreviousMessages(messages) ==
    [i \in 1..Len(messages) |-> [role |-> messages[i].role, content |-> messages[i].content]]

\* the messages array handed to openai.chat.completions.create
PromptMessages(context, messages, userMessage) ==
    <<SystemMessage(context)>> \o PreviousMessages(messages)
        \o <<[role |-> "user", content |-> userMessage]>>

\* ProcessMessageNext with the error of the user insert dropped like that of the update
ProcessMessageNextUncheckedInsert(at, outcome) ==
    CASE at = "addUser"     -> "touchUser"
      [] at = "touchUser"   -> "getChat"
      [] at = "getChat"     -> IF outcome = "error" THEN "throw" ELSE "getMessages"
      [] at = "getMessages" -> IF outcome = "error" THEN "throw"
                               ELSE IF outcome = "nodoc" THEN "generate" ELSE "embed"
      [] at = "generate"    -> IF outcome = "ok" THEN "addAi" ELSE "throw"
      [] at = "addAi"       -> IF outcome = "ok" THEN "touchAi" ELSE "throw"
      [] at = "touchAi"     -> "return"

\* ProcessMessageNext with a failed generation caught and the reply saved all the same
ProcessMessageNextSwallowGeneration(at, outcome) ==
    CASE at = "addUser"     -> IF outcome = "ok" THEN "touchUser" ELSE "throw"
      [] at = "touchUser"   -> "getChat"
      [] at = "getChat"     -> IF outcome = "error" THEN "throw" ELSE "getMessages"
      [] at = "getMessages" -> IF outcome = "error" THEN "throw"
                               ELSE IF outcome = "nodoc" THEN "generate" ELSE "embed"
      [] at = "generate"    -> "addAi"
      [] at = "addAi"       -> IF outcome = "ok" THEN "touchAi" ELSE "throw"
      [] at = "touchAi"     -> "return"

\* Where processMessage goes after the await it stands at, by the await's outcome
\* ("ok", "error", or "nodoc" when the chat row joins no document).  An error of
\* the updated_at write is not looked at.
ProcessMessageNext(at, outcome) ==
    CASE at = "addUser"     -> IF outcome = "ok" THEN "touchUser" ELSE "throw"
      [] at = "touchUser"   -> "getChat"
      [] at = "getChat"     -> IF outcome = "error" THEN "throw" ELSE "getMessages"
      [] at = "getMessages" -> IF outcome = "error" THEN "throw"
                               ELSE IF outcome = "nodoc" THEN "generate" ELSE "embed"
      [] at = "generate"    -> IF outcome = "ok" THEN "addAi" ELSE "throw"
      [] at = "addAi"       -> IF outcome = "ok" THEN "touchAi" ELSE "throw"
      [] at = "touchAi"     -> "return"

\* GetRelevantContextNext without the catch: a failure is thrown on
GetRelevantContextNextNoCatch(at, outcome) ==
    CASE at = "embed" -> IF outcome = "ok" THEN "rpc" ELSE "throw"
      [] at = "rpc"   -> IF outcome = "ok" THEN "generate" ELSE "throw"

\* Where getRelevantContext goes: its catch turns every failure into return ''
GetRelevantContextNext(at, outcome) ==
    CASE at = "embed" -> IF outcome = "ok" THEN "rpc" ELSE "generate"
      [] at = "rpc"   -> "generate"

\* GetRelevantContextResult with a notice in place of an empty context
GetRelevantContextResultNotice(outcome, data) ==
    IF outcome = "ok"
    THEN IF Len(data) > 0 THEN ContextOf(data) ELSE <<"No relevant context found.">>
    ELSE <<>>

\* what getRelevantContext returns after the similarity query
GetRelevantContextResult(outcome, data) ==
    IF outcome = "ok" THEN ContextOf(data) ELSE <<>>

\* The body a controller's catch block answers with: success false, the fixed
\* message, and error: process.env.NODE_ENV === 'development' ? error.message :
\* undefined (a field that is undefined is left out of the JSON).
FailureBody(status, message, detail) ==
    IF NODE_ENV = "development"
    THEN [status |-> status, success |-> FALSE, message |-> message, error |-> detail]
    ELSE [status |-> status, success |-> FALSE, message |-> message]

\* chatController.sendMessage: the three responses
ValidationResponse ==
    [status |-> 400, success |-> FALSE, message |-> "Message content is required"]
FailureResponse ==
    FailureBody(500, "Failed to process message", "error.message")
SuccessResponse(result) ==
    [status |-> 200, success |-> TRUE, data |-> result]

----------------------------------------------------------------------------
(* The chat path as a state machine *)

LocInit ==
    [savedUserMessage |-> Null, chat |-> Null, documentId |-> NoDocument,
     messages |-> <<>>, queryEmbedding |-> <<>>, rpcParams |-> Null, data |-> <<>>,
     context |-> <<>>, prompt |-> <<>>, aiResponse |-> <<>>, savedAiMessage |-> Null]

\* obs[p] observes the request: trace, the calls it issued in order; history, the
\* chat's messages when it began; updatedAtStart, the chat's updated_at then;
\* retrieval and generation, how those went; inserted, the ids of its own rows;
\* failed, the store calls of processMessage that returned an error.
ObsInit ==
    [trace |-> <<>>, history |-> <<>>, updatedAtStart |-> {}, retrieval |-> "none",
     generation |-> "none", inserted |-> {}, failed |-> {}]

\* document: the row the insert returned; textContent: the extracted text or the
\* image description; chunks, i: the for-of loop of createEmbeddings; embedding: the
\* vector destructured from the last embedding response
UlocInit ==
    [document |-> Null, textContent |-> <<>>, chunks |-> <<>>, i |-> 0, embedding |-> <<>>]

\* uobs[w] observes the upload: trace, the calls it issued in order; embedded, the
\* input and the returned vector of each embedding call; rows, the ids of the
\* chunk rows it stored, in the order it stored them; failedAt, the await that failed
UobsInit ==
    [trace |-> <<>>, embedded |-> <<>>, rows |-> <<>>, failedAt |-> "none"]

ChatInit ==
    /\ chats = InitChats
    /\ chat_messages = InitMessages
    /\ document_embeddings = InitEmbeddings
    /\ clock = 2
    /\ pc = [p \in Procs |-> "idle"]
    /\ req = [p \in Procs |-> Null]
    /\ loc = [p \in Procs |-> LocInit]
    /\ res = [p \in Procs |-> Null]
    /\ obs = [p \in Procs |-> ObsInit]

ChunkIdle ==
    /\ text = <<>>
    /\ chunkSize = 0
    /\ sentences = <<>>
    /\ idx = 0
    /\ currentChunk = <<>>
    /\ chunks = <<>>
    /\ cpc = "off"
    /\ returned = <<>>

\* the values of NODE_ENV: the two usual ones, and the variable not being set
Environments == {"development", "production", "undefined"}

\* the server runs with NODE_ENV=production
EnvProduction == NODE_ENV = "production"

\* the server runs with any NODE_ENV
EnvAny == NODE_ENV \in Environments

UploadIdle ==
    /\ documents = InitDocuments
    /\ upc = [w \in Uploads |-> "idle"]
    /\ ureq = [w \in Uploads |-> Null]
    /\ uloc = [w \in Uploads |-> UlocInit]
    /\ ures = [w \in Uploads |-> Null]
    /\ uobs = [w \in Uploads |-> UobsInit]

MessagesOfChat(chatId) == {m \in chat_messages : m.chat_id = chatId}

\* the step out of an await: the next await, or the response when processMessage
\* throws or returns
Advance(p, next, result) ==
    /\ pc' = [pc EXCEPT ![p] = IF next \in {"throw", "return"} THEN "done" ELSE next]
    /\ res' = [res EXCEPT ![p] = IF next = "throw" THEN FailureResponse
                                 ELSE IF next = "return" THEN SuccessResponse(result)
                                 ELSE @]

Traced(p, event) == [obs[p] EXCEPT !.trace = Append(@, event)]

\* a store call with its outcome
TracedStore(p, event, outcome) ==
    [Traced(p, event) EXCEPT !.failed = IF outcome = "error" THEN @ \cup {event} ELSE @]

\* chatController.sendMessage up to the call of processMessage
SendMessage(p) ==
    /\ pc[p] = "idle"
    /\ \E chatId \in RequestChatIds, userId \in RequestUsers, message \in Messages :
          /\ req' = [req EXCEPT ![p] = [chatId |-> chatId, userId |-> userId, message |-> message]]
          /\ IF message = <<>>
             THEN /\ pc' = [pc EXCEPT ![p] = "done"]
                  /\ res' = [res EXCEPT ![p] = ValidationResponse]
                  /\ obs' = obs
             ELSE /\ pc' = [pc EXCEPT ![p] = "addUser"]
                  /\ res' = res
                  /\ obs' = [obs EXCEPT ![p] =
                        [@ EXCEPT !.history = SortByCreatedAt(MessagesOfChat(chatId)),
                                  !.updatedAtStart =
                                      {c.updated_at : c \in {x \in chats : x.id = chatId}}]]
    /\ UNCHANGED <<chats, chat_messages, document_embeddings, clock, loc>>
    /\ UNCHANGED chunkVars
    /\ UNCHANGED uploadVars
    /\ UNCHANGED envVars

\* the insert of addMessage; the store refuses a row whose chat does not exist
InsertOutcomes(chatId) ==
    IF \E c \in chats : c.id = chatId THEN {"ok", "error"} ELSE {"error"}

\* NewMessageRow with a created_at that does not move with the time of the insert
NewMessageRowFixedTime(chatId, role, content) ==
    [id |-> clock + 1, chat_id |-> chatId, role |-> role, content |-> content,
     created_at |-> 0]

NewMessageRow(chatId, role, content) ==
    [id |-> clock + 1, chat_id |-> chatId, role |-> role, content |-> content,
     created_at |-> clock + 1]

\* addMessage(chatId, 'user', userMessage): the insert
AddUserMessage(p) ==
    /\ pc[p] = "addUser"
    /\ \E outcome \in InsertOutcomes(req[p].chatId) :
          LET row == NewMessageRow(req[p].chatId, "user", req[p].message)
              next == ProcessMessageNext("addUser", outcome)
          IN  /\ IF outcome = "ok"
                 THEN /\ chat_messages' = chat_messages \cup {row}
                      /\ clock' = clock + 1
                      /\ loc' = [loc EXCEPT ![p].savedUserMessage = row]
                      /\ obs' = [obs EXCEPT ![p] =
                            [Traced(p, "insert_user") EXCEPT !.inserted = @ \cup {row.id}]]
                 ELSE /\ UNCHANGED <<chat_messages, clock, loc>>
                      /\ obs' = [obs EXCEPT ![p] = TracedStore(p, "insert_user", outcome)]
              /\ Advance(p, next, Null)
    /\ UNCHANGED <<chats, document_embeddings, req>>
    /\ UNCHANGED chunkVars
    /\ UNCHANGED uploadVars
    /\ UNCHANGED envVars

\* addMessage: the update of the chat's updated_at, whose result is dropped
TouchChat(p, at) ==
    /\ pc[p] = at
    /\ \E outcome \in {"ok", "error"} :
          /\ IF outcome = "ok"
             THEN /\ chats' = {IF c.id = req[p].chatId
                                  THEN [c EXCEPT !.updated_at = clock + 1] ELSE c : c \in chats}
                  /\ clock' = clock + 1
             ELSE UNCHANGED <<chats, clock>>
          /\ Advance(p, ProcessMessageNext(at, outcome),
                     [userMessage |-> loc[p].savedUserMessage,
                      aiMessage |-> loc[p].savedAiMessage])
          /\ obs' = [obs EXCEPT ![p] = TracedStore(p, "update_chat", outcome)]
    /\ UNCHANGED <<chat_messages, document_embeddings, req, loc>>
    /\ UNCHANGED chunkVars
    /\ UNCHANGED uploadVars
    /\ UNCHANGED envVars

TouchAfterUser(p) == TouchChat(p, "touchUser")

TouchAfterAi(p) == TouchChat(p, "touchAi")

\* getChat: the select of the chat row with .single()
GetChatRow(p) ==
    /\ pc[p] = "getChat"
    /\ LET rows == {c \in chats : c.id = req[p].chatId /\ c.user_id = req[p].userId}
       IN  \E outcome \in (IF Cardinality(rows) = 1 THEN {"ok", "error"} ELSE {"error"}) :
              /\ IF outcome = "ok"
                 THEN LET chat == CHOOSE c \in rows : TRUE
                      IN  loc' = [loc EXCEPT ![p].chat = chat,
                                             ![p].documentId = chat.document_id]
                 ELSE loc' = loc
              /\ Advance(p, ProcessMessageNext("getChat", outcome), Null)
              /\ obs' = [obs EXCEPT ![p] = TracedStore(p, "select_chat", outcome)]
    /\ UNCHANGED <<chats, chat_messages, document_embeddings, clock, req>>
    /\ UNCHANGED chunkVars
    /\ UNCHANGED uploadVars
    /\ UNCHANGED envVars

\* getChat: the select of the chat's messages; then documentId = documents?.id
GetChatMessages(p) ==
    /\ pc[p] = "getMessages"
    /\ \E ok \in BOOLEAN :
          LET outcome == IF ~ok THEN "error"
                         ELSE IF loc[p].documentId = NoDocument THEN "nodoc" ELSE "ok"
          IN  /\ loc' = [loc EXCEPT ![p].messages =
                            IF ok THEN SortByCreatedAt(MessagesOfChat(req[p].chatId)) ELSE @]
              /\ obs' = [obs EXCEPT ![p] =
                            [TracedStore(p, "select_messages", outcome) EXCEPT !.retrieval =
                                IF outcome = "nodoc" THEN "no_document" ELSE @]]
              /\ Advance(p, ProcessMessageNext("getMessages", outcome), Null)
    /\ UNCHANGED <<chats, chat_messages, document_embeddings, clock, req>>
    /\ UNCHANGED chunkVars
    /\ UNCHANGED uploadVars
    /\ UNCHANGED envVars

\* getRelevantContext: openai.embeddings.create for the query
EmbedQuery(p) ==
    /\ pc[p] = "embed"
    /\ \/ \E v \in QueryEmbeddings :
             /\ loc' = [loc EXCEPT ![p].queryEmbedding = v]
             /\ obs' = [obs EXCEPT ![p] = Traced(p, "embed")]
             /\ Advance(p, GetRelevantContextNext("embed", "ok"), Null)
       \/ /\ loc' = [loc EXCEPT ![p].context = GetRelevantContextResult("error", <<>>)]
          /\ obs' = [obs EXCEPT ![p] = [Traced(p, "embed") EXCEPT !.retrieval = "embed_failed"]]
          /\ Advance(p, GetRelevantContextNext("embed", "error"), Null)
    /\ UNCHANGED <<chats, chat_messages, document_embeddings, clock, req>>
    /\ UNCHANGED chunkVars
    /\ UNCHANGED uploadVars
    /\ UNCHANGED envVars

\* getRelevantContext: the similarity query and the assembly of the context
MatchEmbeddings(p) ==
    /\ pc[p] = "rpc"
    /\ LET params == RpcParams(loc[p].documentId, loc[p].queryEmbedding)
       IN  \/ \E data \in match_document_embeddings(params, document_embeddings) :
                 /\ loc' = [loc EXCEPT ![p].rpcParams = params,
                                       ![p].data = data,
                                       ![p].context = GetRelevantContextResult("ok", data)]
                 /\ obs' = [obs EXCEPT ![p] = [Traced(p, "rpc") EXCEPT !.retrieval = "ok"]]
                 /\ Advance(p, GetRelevantContextNext("rpc", "ok"), Null)
           \/ /\ loc' = [loc EXCEPT ![p].rpcParams = params,
                                    ![p].context = GetRelevantContextResult("error", <<>>)]
              /\ obs' = [obs EXCEPT ![p] = [Traced(p, "rpc") EXCEPT !.retrieval = "rpc_error"]]
              /\ Advance(p, GetRelevantContextNext("rpc", "error"), Null)
    /\ UNCHANGED <<chats, chat_messages, document_embeddings, clock, req>>
    /\ UNCHANGED chunkVars
    /\ UNCHANGED uploadVars
    /\ UNCHANGED envVars

\* openai.chat.completions.create with the assembled messages
Generate(p) ==
    /\ pc[p] = "generate"
    /\ LET prompt == PromptMessages(loc[p].context, loc[p].messages, req[p].message)
       IN  \/ \E out \in ModelOutputs :
                 /\ loc' = [loc EXCEPT ![p].prompt = prompt, ![p].aiResponse = out]
                 /\ obs' = [obs EXCEPT ![p] = [Traced(p, "generate") EXCEPT !.generation = "ok"]]
                 /\ Advance(p, ProcessMessageNext("generate", "ok"), Null)
           \/ /\ loc' = [loc EXCEPT ![p].prompt = prompt]
              /\ obs' = [obs EXCEPT ![p] = [Traced(p, "generate") EXCEPT !.generation = "failed"]]
              /\ Advance(p, ProcessMessageNext("generate", "error"), Null)
    /\ UNCHANGED <<chats, chat_messages, document_embeddings, clock, req>>
    /\ UNCHANGED chunkVars
    /\ UNCHANGED uploadVars
    /\ UNCHANGED envVars

\* addMessage(chatId, 'assistant', aiResponse): the insert
AddAiMessage(p) ==
    /\ pc[p] = "addAi"
    /\ \E outcome \in InsertOutcomes(req[p].chatId) :
          LET row == NewMessageRow(req[p].chatId, "assistant", loc[p].aiResponse)
          IN  /\ IF outcome = "ok"
                 THEN /\ chat_messages' = chat_messages \cup {row}
                      /\ clock' = clock + 1
                      /\ loc' = [loc EXCEPT ![p].savedAiMessage = row]
                      /\ obs' = [obs EXCEPT ![p] =
                            [Traced(p, "insert_ai") EXCEPT !.inserted = @ \cup {row.id}]]
                 ELSE /\ UNCHANGED <<chat_messages, clock, loc>>
                      /\ obs' = [obs EXCEPT ![p] = TracedStore(p, "insert_ai", outcome)]
              /\ Advance(p, ProcessMessageNext("addAi", outcome), Null)
    /\ UNCHANGED <<chats, document_embeddings, req>>
    /\ UNCHANGED chunkVars
    /\ UNCHANGED uploadVars
    /\ UNCHANGED envVars

Next ==
    \E p \in Procs :
        \/ SendMessage(p)
        \/ AddUserMessage(p)
        \/ TouchAfterUser(p)
        \/ GetChatRow(p)
        \/ GetChatMessages(p)
        \/ EmbedQuery(p)
        \/ MatchEmbeddings(p)
        \/ Generate(p)
        \/ AddAiMessage(p)
        \/ TouchAfterAi(p)

Init == ChatInit /\ ChunkIdle /\ UploadIdle /\ EnvProduction

Spec == Init /\ [][Next]_vars

----------------------------------------------------------------------------
(* chatController.createChat and chatController.deleteChat, beside sendMessage *)

\* req.body.documentId of a create request: missing, a document of the store, no
\* document of the store
RequestDocumentIds == {NoDocument, 1, 9}

\* the caller of a delete request when neither req.user nor req.query.userId is there
NoUser == "none"

\* chatController.createChat: the three responses
CreateValidationResponse ==
    [status |-> 400, success |-> FALSE, message |-> "Document ID is required"]
CreateFailureResponse ==
    FailureBody(500, "Failed to create chat", "error.message")
CreateSuccessResponse(chat) ==
    [status |-> 201, success |-> TRUE, message |-> "Chat created successfully", data |-> chat]

\* chatController.deleteChat: the responses
DeleteValidationResponse ==
    [status |-> 400, success |-> FALSE, message |-> "Chat ID and User ID are required"]
DeleteForbiddenResponse ==
    [status |-> 403, success |-> FALSE, message |-> "Unauthorized or chat not found"]
DeleteFailureResponse ==
    FailureBody(500, "Failed to delete chat", "error.message")
DeleteSuccessResponse(chatId) ==
    [status |-> 200, success |-> TRUE, message |-> "Chat deleted successfully",
     chatId |-> chatId]

\* DeleteChatNext with the failure of getChat not looked at
DeleteChatNextUnchecked(at, outcome) ==
    CASE at = "delGetChat"     -> "delGetMessages"
      [] at = "delGetMessages" -> "delDelete"
      [] at = "delDelete"      -> IF outcome = "ok" THEN "return" ELSE "throw"

\* Where deleteChat goes after the await it stands at.  getChat throws when the
\* select with .single() finds no row, so `if (!chat)` never sees a missing chat.
DeleteChatNext(at, outcome) ==
    CASE at = "delGetChat"     -> IF outcome = "ok" THEN "delGetMessages" ELSE "throw"
      [] at = "delGetMessages" -> IF outcome = "ok" THEN "delDelete" ELSE "throw"
      [] at = "delDelete"      -> IF outcome = "ok" THEN "return" ELSE "throw"

\* .eq('id', chatId).eq('user_id', userId)
OwnChatRows(chatId, userId) == {c \in chats : c.id = chatId /\ c.user_id = userId}

\* CreateChat without the test of documentId
CreateChatUnvalidated(p) ==
    /\ pc[p] = "idle"
    /\ \E documentId \in RequestDocumentIds, userId \in RequestUsers :
          req' = [req EXCEPT ![p] = [op |-> "createChat", userId |-> userId,
                                     documentId |-> documentId]]
    /\ pc' = [pc EXCEPT ![p] = "createInsert"]
    /\ UNCHANGED <<chats, chat_messages, document_embeddings, clock, loc, res, obs>>
    /\ UNCHANGED chunkVars
    /\ UNCHANGED uploadVars
    /\ UNCHANGED envVars

\* chatController.createChat up to the call of ChatModel.createChat
CreateChat(p) ==
    /\ pc[p] = "idle"
    /\ \E documentId \in RequestDocumentIds, userId \in RequestUsers :
          /\ req' = [req EXCEPT ![p] = [op |-> "createChat", userId |-> userId,
                                        documentId |-> documentId]]
          /\ IF documentId = NoDocument
             THEN /\ pc' = [pc EXCEPT ![p] = "done"]
                  /\ res' = [res EXCEPT ![p] = CreateValidationResponse]
             ELSE /\ pc' = [pc EXCEPT ![p] = "createInsert"]
                  /\ res' = res
    /\ UNCHANGED <<chats, chat_messages, document_embeddings, clock, loc, obs>>
    /\ UNCHANGED chunkVars
    /\ UNCHANGED uploadVars
    /\ UNCHANGED envVars

\* ChatModel.createChat: the insert; the store refuses a chat on a document that
\* does not exist
InsertChat(p) ==
    /\ pc[p] = "createInsert"
    /\ \E outcome \in (IF \E d \in documents : d.id = req[p].documentId
                       THEN {"ok", "error"} ELSE {"error"}) :
          LET row == [id |-> NewId(chats), user_id |-> req[p].userId,
                      document_id |-> req[p].documentId, updated_at |-> clock + 1]
          IN  IF outcome = "ok"
              THEN /\ chats' = chats \cup {row}
                   /\ clock' = clock + 1
                   /\ res' = [res EXCEPT ![p] = CreateSuccessResponse(row)]
              ELSE /\ UNCHANGED <<chats, clock>>
                   /\ res' = [res EXCEPT ![p] = CreateFailureResponse]
    /\ pc' = [pc EXCEPT ![p] = "done"]
    /\ obs' = [obs EXCEPT ![p] = Traced(p, "insert_chat")]
    /\ UNCHANGED <<chat_messages, document_embeddings, req, loc>>
    /\ UNCHANGED chunkVars
    /\ UNCHANGED uploadVars
    /\ UNCHANGED envVars

\* chatController.deleteChat up to the call of ChatModel.getChat
DeleteChat(p) ==
    /\ pc[p] = "idle"
    /\ \E chatId \in RequestChatIds, userId \in RequestUsers \cup {NoUser} :
          /\ req' = [req EXCEPT ![p] = [op |-> "deleteChat", chatId |-> chatId,
                                        userId |-> userId]]
          /\ IF userId = NoUser
             THEN /\ pc' = [pc EXCEPT ![p] = "done"]
                  /\ res' = [res EXCEPT ![p] = DeleteValidationResponse]
             ELSE /\ pc' = [pc EXCEPT ![p] = "delGetChat"]
                  /\ res' = res
    /\ UNCHANGED <<chats, chat_messages, document_embeddings, clock, loc, obs>>
    /\ UNCHANGED chunkVars
    /\ UNCHANGED uploadVars
    /\ UNCHANGED envVars

\* the step out of an await of deleteChat
DeleteAdvance(p, next) ==
    /\ pc' = [pc EXCEPT ![p] = IF next \in {"throw", "return"} THEN "done" ELSE next]
    /\ res' = [res EXCEPT ![p] = IF next = "throw" THEN DeleteFailureResponse
                                 ELSE IF next = "return"
                                 THEN DeleteSuccessResponse(req[p].chatId)
                                 ELSE @]

\* deleteChat, in getChat: the select of the chat row with .single()
DeleteGetChatRow(p) ==
    /\ pc[p] = "delGetChat"
    /\ LET rows == OwnChatRows(req[p].chatId, req[p].userId)
       IN  \E outcome \in (IF Cardinality(rows) = 1 THEN {"ok", "error"} ELSE {"error"}) :
              DeleteAdvance(p, DeleteChatNext("delGetChat", outcome))
    /\ obs' = [obs EXCEPT ![p] = Traced(p, "select_chat")]
    /\ UNCHANGED <<chats, chat_messages, document_embeddings, clock, req, loc>>
    /\ UNCHANGED chunkVars
    /\ UNCHANGED uploadVars
    /\ UNCHANGED envVars

\* deleteChat, in getChat: the select of the chat's messages
DeleteGetChatMessages(p) ==
    /\ pc[p] = "delGetMessages"
    /\ \E outcome \in {"ok", "error"} :
          DeleteAdvance(p, DeleteChatNext("delGetMessages", outcome))
    /\ obs' = [obs EXCEPT ![p] = Traced(p, "select_messages")]
    /\ UNCHANGED <<chats, chat_messages, document_embeddings, clock, req, loc>>
    /\ UNCHANGED chunkVars
    /\ UNCHANGED uploadVars
    /\ UNCHANGED envVars

\* deleteChat: the delete of the rows with the id and the owner.  The messages of
\* a deleted chat go with it; a store that refuses the delete answers an error.
DeleteChatRow(p) ==
    /\ pc[p] = "delDelete"
    /\ \E outcome \in {"ok", "error"} :
          LET gone == {c.id : c \in OwnChatRows(req[p].chatId, req[p].userId)}
          IN  /\ IF outcome = "ok"
                 THEN /\ chats' = {c \in chats : c.id \notin gone}
                      /\ chat_messages' = {m \in chat_messages : m.chat_id \notin gone}
                 ELSE UNCHANGED <<chats, chat_messages>>
              /\ DeleteAdvance(p, DeleteChatNext("delDelete", outcome))
    /\ obs' = [obs EXCEPT ![p] = Traced(p, "delete_chat")]
    /\ UNCHANGED <<document_embeddings, clock, req, loc>>
    /\ UNCHANGED chunkVars
    /\ UNCHANGED uploadVars
    /\ UNCHANGED envVars

\* the request that may be a sendMessage
Senders == {"p1"}

\* One request of any of the three kinds, and beside it one that creates or
\* deletes a chat
NextManage ==
    \/ \E p \in Senders :
          \/ SendMessage(p)
          \/ AddUserMessage(p)
          \/ TouchAfterUser(p)
          \/ GetChatRow(p)
          \/ GetChatMessages(p)
          \/ EmbedQuery(p)
          \/ MatchEmbeddings(p)
          \/ Generate(p)
          \/ AddAiMessage(p)
          \/ TouchAfterAi(p)
    \/ \E p \in Procs :
          \/ CreateChat(p)
          \/ InsertChat(p)
          \/ DeleteChat(p)
          \/ DeleteGetChatRow(p)
          \/ DeleteGetChatMessages(p)
          \/ DeleteChatRow(p)

InitManage == ChatInit /\ ChunkIdle /\ UploadIdle /\ EnvAny

SpecManage == InitManage /\ [][NextManage]_vars

----------------------------------------------------------------------------
(* DocumentModel.splitTextIntoChunks *)

MaxTextLen == 5
MaxChunkSize == 4

Alphabet == {"a", ".", "?", " ", "\n"}

\* [.!?]
Punctuation == {".", "!", "?"}

\* \s, as far as the alphabet goes
Whitespace == {" ", "\n", "\t"}

Texts == UNION {[1..n -> Alphabet] : n \in 0..MaxTextLen}

RECURSIVE RunEnd(_, _)
\* the first position at or after q that holds no whitespace (\s+ is greedy)
RunEnd(t, q) ==
    IF q <= Len(t) /\ t[q] \in Whitespace THEN RunEnd(t, q + 1) ELSE q

\* the first position at or after q where a separator starts (whitespace that
\* follows '.', '!' or '?'), or Len(t) + 1 when there is none
NextSeparator(t, q) ==
    LET starts == {k \in q..Len(t) : k > 1 /\ t[k - 1] \in Punctuation /\ t[k] \in Whitespace}
    IN  IF starts = {} THEN Len(t) + 1
        ELSE CHOOSE k \in starts : \A j \in starts : k <= j

RECURSIVE SplitFrom(_, _, _)
\* the pieces of t from position p on, the search for a separator standing at q
SplitFrom(t, p, q) ==
    LET k == NextSeparator(t, q)
    IN  IF k > Len(t) THEN <<SubSeq(t, p, Len(t))>>
        ELSE <<SubSeq(t, p, k - 1)>> \o SplitFrom(t, RunEnd(t, k), RunEnd(t, k))

\* text.split(/(?<=[.!?])\s+/): the separators are the whitespace runs that follow
\* '.', '!' or '?'; a text ending in a separator yields a last empty piece
SplitSentences(t) == SplitFrom(t, 1, 1)

\* Fits with < in place of <=
FitsStrict(current, sentence, size) == Len(current) + Len(sentence) < size

\* Fits with a length test that moves with the number of earlier calls
FitsAfterCalls(current, sentence, size) ==
    Len(current) + Len(sentence) + Len(returned) <= size

\* currentChunk.length + sentence.length <= chunkSize
Fits(current, sentence, size) == Len(current) + Len(sentence) <= size

\* Extend without the joining space
ExtendNoSpace(current, sentence) == current \o sentence

\* currentChunk += (currentChunk ? ' ' : '') + sentence
Extend(current, sentence) ==
    current \o (IF current # <<>> THEN <<" ">> ELSE <<>>) \o sentence

\* PushIfAny assigning the list in place of pushing to it
PushIfAnyOverwrite(list, current) == IF current # <<>> THEN <<current>> ELSE list

\* if (currentChunk) chunks.push(currentChunk)
PushIfAny(list, current) == IF current # <<>> THEN Append(list, current) ELSE list

ChunkInit ==
    /\ text \in Texts
    /\ chunkSize \in 0..MaxChunkSize
    /\ sentences = <<>>
    /\ idx = 0
    /\ currentChunk = <<>>
    /\ chunks = <<>>
    /\ cpc = "split"
    /\ returned = <<>>

\* const sentences = text.split(...)
ChunkSplit ==
    /\ cpc = "split"
    /\ sentences' = SplitSentences(text)
    /\ idx' = 1
    /\ cpc' = "loop"
    /\ UNCHANGED <<text, chunkSize, currentChunk, chunks, returned>>
    /\ UNCHANGED chatVars
    /\ UNCHANGED uploadVars
    /\ UNCHANGED envVars

\* one pass of the for loop, the sentence fitting
ChunkAppend ==
    /\ cpc = "loop"
    /\ idx <= Len(sentences)
    /\ Fits(currentChunk, sentences[idx], chunkSize)
    /\ currentChunk' = Extend(currentChunk, sentences[idx])
    /\ idx' = idx + 1
    /\ UNCHANGED <<text, chunkSize, sentences, chunks, cpc, returned>>
    /\ UNCHANGED chatVars
    /\ UNCHANGED uploadVars
    /\ UNCHANGED envVars

\* one pass of the for loop, the sentence not fitting
ChunkClose ==
    /\ cpc = "loop"
    /\ idx <= Len(sentences)
    /\ ~Fits(currentChunk, sentences[idx], chunkSize)
    /\ chunks' = PushIfAny(chunks, currentChunk)
    /\ currentChunk' = sentences[idx]
    /\ idx' = idx + 1
    /\ UNCHANGED <<text, chunkSize, sentences, cpc, returned>>
    /\ UNCHANGED chatVars
    /\ UNCHANGED uploadVars
    /\ UNCHANGED envVars

\* after the loop: the last chunk, and return chunks
ChunkReturn ==
    /\ cpc = "loop"
    /\ idx > Len(sentences)
    /\ chunks' = PushIfAny(chunks, currentChunk)
    /\ cpc' = "done"
    /\ UNCHANGED <<text, chunkSize, sentences, idx, currentChunk, returned>>
    /\ UNCHANGED chatVars
    /\ UNCHANGED uploadVars
    /\ UNCHANGED envVars

NextChunker ==
    \/ ChunkSplit
    \/ ChunkAppend
    \/ ChunkClose
    \/ ChunkReturn

InitChunker == ChatInit /\ ChunkInit /\ UploadIdle /\ EnvProduction

SpecChunker == InitChunker /\ [][NextChunker]_vars

\* A second call of splitTextIntoChunks with the same text and chunkSize, later:
\* the locals are new, and what the first call returned is kept for comparison
ChunkAgain ==
    /\ cpc = "done"
    /\ returned = <<>>
    /\ returned' = <<chunks>>
    /\ sentences' = <<>>
    /\ idx' = 0
    /\ currentChunk' = <<>>
    /\ chunks' = <<>>
    /\ cpc' = "split"
    /\ clock' = clock + 1
    /\ UNCHANGED <<text, chunkSize>>
    /\ UNCHANGED <<chats, chat_messages, document_embeddings, pc, req, loc, res, obs>>
    /\ UNCHANGED uploadVars
    /\ UNCHANGED envVars

NextTwice ==
    \/ ChunkSplit
    \/ ChunkAppend
    \/ ChunkClose
    \/ ChunkReturn
    \/ ChunkAgain

SpecTwice == InitChunker /\ [][NextTwice]_vars

----------------------------------------------------------------------------
(* The chunker on texts of 50 sentences of 50 characters, at the size that
   createEmbeddings passes *)

\* this.splitTextIntoChunks(text, 1000)
EmbeddingChunkSize == 1000

\* 2500 characters: 50 sentences, each of them fill characters, a terminator and
\* one separator character, 50 in all; with closed = FALSE the last sentence has
\* 49 fill characters and its terminator, and no separator after it
ScenarioText(fill, term, sep, closed) ==
    [i \in 1..2500 |->
        IF ~closed /\ i > 2450
        THEN IF i = 2500 THEN term ELSE fill
        ELSE IF i % 50 = 49 THEN term
             ELSE IF i % 50 = 0 THEN sep
             ELSE fill]

ScenarioTexts ==
    {ScenarioText(fill, term, sep, closed) :
        fill \in {"a", "b"}, term \in {".", "?"}, sep \in {" ", "\n"}, closed \in BOOLEAN}

InitScenario ==
    /\ ChatInit
    /\ UploadIdle
    /\ EnvProduction
    /\ text \in ScenarioTexts
    /\ chunkSize = EmbeddingChunkSize
    /\ sentences = <<>>
    /\ idx = 0
    /\ currentChunk = <<>>
    /\ chunks = <<>>
    /\ cpc = "split"
    /\ returned = <<>>

SpecScenario == InitScenario /\ [][NextChunker]_vars

----------------------------------------------------------------------------
(* Ingestion: the upload route, documentController.uploadDocument,
   DocumentModel.uploadDocument and createEmbeddings *)

PdfType == "application/pdf"
TextType == "text/plain"
DocType == "application/msword"
DocxType == "application/vnd.openxmlformats-officedocument.wordprocessingml.document"

\* the media types a caller may declare: the four document types, the image types
\* and one type of neither kind
MimeTypes == {PdfType, TextType, DocType, DocxType,
              "image/png", "image/jpeg", "image/jpg", "image/gif"}

\* allowedMimeTypes of the multer fileFilter
AllowedMimeTypes == {PdfType, TextType, DocType, DocxType}

\* imageMimeTypes.includes(mimetype)
isImageFile(mimetype) == mimetype \in {"image/png", "image/jpeg", "image/jpg"}

\* getLoaderByMimeType with a text loader for every type it does not know
getLoaderByMimeTypeDefaultText(mimetype) ==
    IF mimetype = PdfType THEN [loader |-> "PDFLoader"]
    ELSE IF mimetype = TextType THEN [loader |-> "TextLoader"]
    ELSE IF mimetype \in {DocType, DocxType} THEN [loader |-> "DocxLoader"]
    ELSE IF isImageFile(mimetype)
    THEN [thrown |-> "Image files should be handled by the image processing flow"]
    ELSE [loader |-> "TextLoader"]

\* the loader for a media type, or the error thrown
getLoaderByMimeType(mimetype) ==
    IF mimetype = PdfType THEN [loader |-> "PDFLoader"]
    ELSE IF mimetype = TextType THEN [loader |-> "TextLoader"]
    ELSE IF mimetype \in {DocType, DocxType} THEN [loader |-> "DocxLoader"]
    ELSE IF isImageFile(mimetype)
    THEN [thrown |-> "Image files should be handled by the image processing flow"]
    ELSE [thrown |-> "Unsupported file type"]

\* a sentence of n characters: n - 1 times c and a full stop
Sentence(n, c) == [i \in 1..n |-> IF i = n THEN "." ELSE c]

\* What loader.load() may return, as the pageContent of its documents: an empty
\* file, a short file, and three pages that make four sentences of 600, 300, 700
\* and 800 characters (three chunks at size 1000, the first of two sentences).
LoadedPages ==
    { << <<>> >>,
      << <<"a", ".">> >>,
      << Sentence(600, "a") \o <<" ">> \o Sentence(300, "b"),
         Sentence(700, "c"),
         Sentence(800, "d") >> }

\* docs.map(doc => doc.pageContent).join('\n')
TextContentOf(pages) == JoinSeq(pages, <<"\n">>)

\* what the vision model may answer: response.choices[0].message.content
ImageDescriptions == {TextContentOf(pages) : pages \in LoadedPages}

\* what the embedding model may return for a chunk
ChunkEmbeddings == {<<1, 0>>, <<0, 1>>}

RECURSIVE ChunkLoop(_, _, _, _)
\* the for loop of splitTextIntoChunks over the sentences ss, and the final push
ChunkLoop(ss, current, list, size) ==
    IF ss = <<>> THEN PushIfAny(list, current)
    ELSE IF Fits(current, Head(ss), size)
         THEN ChunkLoop(Tail(ss), Extend(current, Head(ss)), list, size)
         ELSE ChunkLoop(Tail(ss), Head(ss), PushIfAny(list, current), size)

\* splitTextIntoChunks as createEmbeddings calls it, in one piece
splitTextIntoChunks(t, size) == ChunkLoop(SplitSentences(t), <<>>, <<>>, size)

\* UploadDocumentNext with the error of a chunk insert not looked at
UploadDocumentNextUncheckedInsert(at, outcome, more) ==
    CASE at = "insertDoc"     -> IF outcome = "ok" THEN (IF more THEN "describe" ELSE "load")
                                 ELSE "throw"
      [] at = "describe"      -> IF outcome = "ok" THEN "updateContent" ELSE "throw"
      [] at = "load"          -> IF outcome = "ok" THEN "updateContent" ELSE "throw"
      [] at = "updateContent" -> IF outcome = "ok" THEN (IF more THEN "embedChunk" ELSE "return")
                                 ELSE "throw"
      [] at = "embedChunk"    -> IF outcome = "ok" THEN "insertChunk" ELSE "throw"
      [] at = "insertChunk"   -> IF more THEN "embedChunk" ELSE "return"

\* Where uploadDocument goes after the await it stands at, by the await's outcome
\* ("ok", or "error" for a failed call and for getLoaderByMimeType throwing).
\* more: at insertDoc, the file is an image; at updateContent and insertChunk, the
\* for-of loop of createEmbeddings has a chunk left.  Both catch blocks rethrow.
UploadDocumentNext(at, outcome, more) ==
    CASE at = "insertDoc"     -> IF outcome = "ok" THEN (IF more THEN "describe" ELSE "load")
                                 ELSE "throw"
      [] at = "describe"      -> IF outcome = "ok" THEN "updateContent" ELSE "throw"
      [] at = "load"          -> IF outcome = "ok" THEN "updateContent" ELSE "throw"
      [] at = "updateContent" -> IF outcome = "ok" THEN (IF more THEN "embedChunk" ELSE "return")
                                 ELSE "throw"
      [] at = "embedChunk"    -> IF outcome = "ok" THEN "insertChunk" ELSE "throw"
      [] at = "insertChunk"   -> IF outcome = "ok" THEN (IF more THEN "embedChunk" ELSE "return")
                                 ELSE "throw"

\* documentController.uploadDocument: the three responses
MissingFileResponse ==
    [status |-> 400, success |-> FALSE, message |-> "No PDF file uploaded"]
UploadFailureResponse ==
    FailureBody(500, "Failed to upload document", "error.message")
UploadSuccessResponse(document) ==
    [status |-> 201, success |-> TRUE,
     message |-> "Document uploaded and processed successfully", data |-> document]

\* The fileFilter's error is passed to next(err); no error-handling middleware is
\* mounted, so the framework's default handler answers it, and the controller
\* does not run.  The default handler sends status 500 and an HTML page: the
\* status text when NODE_ENV is 'production', the error's stack otherwise.
FilterRejection ==
    [status |-> 500,
     html |-> IF NODE_ENV = "production" THEN "Internal Server Error"
              ELSE "Error: Only PDF, TXT, DOC, and DOCX files are allowed (stack)"]

\* req.file when the request carries no file
NoFile == "none"

UploadedFiles == {"f1"}

\* the step out of an await of uploadDocument: the next await, or what the caller
\* gets when uploadDocument throws or returns (the endpoint's response, or the
\* returned document or thrown error itself when the model is called directly)
UploadAdvance(w, at, next, error) ==
    /\ upc' = [upc EXCEPT ![w] = IF next \in {"throw", "return"} THEN "done" ELSE next]
    /\ ures' = [ures EXCEPT ![w] =
          IF next = "throw"
          THEN IF ureq[w].via = "endpoint" THEN UploadFailureResponse
               ELSE [thrown |-> error]
          ELSE IF next = "return"
          THEN IF ureq[w].via = "endpoint" THEN UploadSuccessResponse(uloc[w].document)
               ELSE [returned |-> uloc[w].document]
          ELSE @]

UTraced(w, event) == [uobs[w] EXCEPT !.trace = Append(@, event)]

\* what an upload step records: its call, and that it failed when it did
UObserved(w, event, failed) ==
    [UTraced(w, event) EXCEPT !.failedAt = IF failed THEN event ELSE @]

\* POST /upload: upload.single('pdf') with its fileFilter, then
\* documentController.uploadDocument up to the call of DocumentModel.uploadDocument
UploadRequest(w) ==
    /\ upc[w] = "idle"
    /\ \E file \in UploadedFiles \cup {NoFile}, mimetype \in MimeTypes, userId \in RequestUsers :
          /\ ureq' = [ureq EXCEPT ![w] = [via |-> "endpoint", file |-> file,
                                          mimetype |-> mimetype, userId |-> userId]]
          /\ IF file # NoFile /\ mimetype \notin AllowedMimeTypes
             THEN /\ upc' = [upc EXCEPT ![w] = "done"]
                  /\ ures' = [ures EXCEPT ![w] = FilterRejection]
             ELSE IF file = NoFile
             THEN /\ upc' = [upc EXCEPT ![w] = "done"]
                  /\ ures' = [ures EXCEPT ![w] = MissingFileResponse]
             ELSE /\ upc' = [upc EXCEPT ![w] = "insertDoc"]
                  /\ ures' = ures
    /\ UNCHANGED <<documents, uloc, uobs, document_embeddings>>
    /\ UNCHANGED chatRequestVars
    /\ UNCHANGED chunkVars
    /\ UNCHANGED envVars

\* DocumentModel.uploadDocument(userId, file, filename, mimetype) called as a
\* function, with any declared media type
CallUploadDocument(w) ==
    /\ upc[w] = "idle"
    /\ \E file \in UploadedFiles, mimetype \in MimeTypes, userId \in RequestUsers :
          ureq' = [ureq EXCEPT ![w] = [via |-> "direct", file |-> file,
                                       mimetype |-> mimetype, userId |-> userId]]
    /\ upc' = [upc EXCEPT ![w] = "insertDoc"]
    /\ UNCHANGED <<documents, uloc, ures, uobs, document_embeddings>>
    /\ UNCHANGED chatRequestVars
    /\ UNCHANGED chunkVars
    /\ UNCHANGED envVars

\* the insert of the documents row; then isImageFile, or getLoaderByMimeType
InsertDocument(w) ==
    /\ upc[w] = "insertDoc"
    /\ \E stored \in BOOLEAN :
          LET row == [id |-> NewId(documents), user_id |-> ureq[w].userId,
                      filename |-> ureq[w].file, content |-> NoContent]
              image == isImageFile(ureq[w].mimetype)
              loader == getLoaderByMimeType(ureq[w].mimetype)
              thrown == ~stored \/ (~image /\ "thrown" \in DOMAIN loader)
              next == UploadDocumentNext("insertDoc", IF thrown THEN "error" ELSE "ok", image)
          IN  /\ IF stored
                 THEN /\ documents' = documents \cup {row}
                      /\ uloc' = [uloc EXCEPT ![w].document = row]
                 ELSE UNCHANGED <<documents, uloc>>
              /\ uobs' = [uobs EXCEPT ![w] = UObserved(w, "insert_document", thrown)]
              /\ UploadAdvance(w, "insertDoc", next,
                               IF ~stored THEN "documentError" ELSE loader.thrown)
    /\ UNCHANGED <<ureq, document_embeddings>>
    /\ UNCHANGED chatRequestVars
    /\ UNCHANGED chunkVars
    /\ UNCHANGED envVars

\* getImageDescription: the vision call
DescribeImage(w) ==
    /\ upc[w] = "describe"
    /\ \/ \E description \in ImageDescriptions :
             LET next == UploadDocumentNext("describe", "ok", FALSE)
             IN  /\ uloc' = [uloc EXCEPT ![w].textContent = description]
                 /\ uobs' = [uobs EXCEPT ![w] = UObserved(w, "describe", FALSE)]
                 /\ UploadAdvance(w, "describe", next, "")
       \/ LET next == UploadDocumentNext("describe", "error", FALSE)
          IN  /\ uloc' = uloc
              /\ uobs' = [uobs EXCEPT ![w] = UObserved(w, "describe", TRUE)]
              /\ UploadAdvance(w, "describe", next, "vision call failed")
    /\ UNCHANGED <<documents, ureq, document_embeddings>>
    /\ UNCHANGED chatRequestVars
    /\ UNCHANGED chunkVars
    /\ UNCHANGED envVars

\* loader.load(), and the join of the pages
LoadFile(w) ==
    /\ upc[w] = "load"
    /\ \/ \E pages \in LoadedPages :
             LET next == UploadDocumentNext("load", "ok", FALSE)
             IN  /\ uloc' = [uloc EXCEPT ![w].textContent = TextContentOf(pages)]
                 /\ uobs' = [uobs EXCEPT ![w] = UObserved(w, "load", FALSE)]
                 /\ UploadAdvance(w, "load", next, "")
       \/ LET next == UploadDocumentNext("load", "error", FALSE)
          IN  /\ uloc' = uloc
              /\ uobs' = [uobs EXCEPT ![w] = UObserved(w, "load", TRUE)]
              /\ UploadAdvance(w, "load", next, "loader failed")
    /\ UNCHANGED <<documents, ureq, document_embeddings>>
    /\ UNCHANGED chatRequestVars
    /\ UNCHANGED chunkVars
    /\ UNCHANGED envVars

\* the update of the document's content; then createEmbeddings up to its first
\* embedding call: the text is cut into chunks
UpdateContent(w) ==
    /\ upc[w] = "updateContent"
    /\ \E outcome \in {"ok", "error"} :
          LET cut == splitTextIntoChunks(uloc[w].textContent, EmbeddingChunkSize)
              next == UploadDocumentNext("updateContent", outcome, Len(cut) > 0)
          IN  /\ IF outcome = "ok"
                 THEN /\ documents' = {IF d.id = uloc[w].document.id
                                          THEN [d EXCEPT !.content = uloc[w].textContent]
                                          ELSE d : d \in documents}
                      /\ uloc' = [uloc EXCEPT ![w].chunks = cut, ![w].i = 1]
                 ELSE UNCHANGED <<documents, uloc>>
              /\ uobs' = [uobs EXCEPT ![w] = UObserved(w, "update_content", outcome = "error")]
              /\ UploadAdvance(w, "updateContent", next, "updateError")
    /\ UNCHANGED <<ureq, document_embeddings>>
    /\ UNCHANGED chatRequestVars
    /\ UNCHANGED chunkVars
    /\ UNCHANGED envVars

\* createEmbeddings: openai.embeddings.create for the chunk, and the destructuring
\* of the vector
EmbedChunk(w) ==
    /\ upc[w] = "embedChunk"
    /\ \/ \E v \in ChunkEmbeddings :
             LET next == UploadDocumentNext("embedChunk", "ok", TRUE)
             IN  /\ uloc' = [uloc EXCEPT ![w].embedding = v]
                 /\ uobs' = [uobs EXCEPT ![w] =
                       [UObserved(w, "embed", FALSE) EXCEPT !.embedded =
                           Append(@, [input |-> uloc[w].chunks[uloc[w].i], embedding |-> v])]]
                 /\ UploadAdvance(w, "embedChunk", next, "")
       \/ LET next == UploadDocumentNext("embedChunk", "error", TRUE)
          IN  /\ uloc' = uloc
              /\ uobs' = [uobs EXCEPT ![w] = UObserved(w, "embed", TRUE)]
              /\ UploadAdvance(w, "embedChunk", next, "embedding call failed")
    /\ UNCHANGED <<documents, ureq, document_embeddings>>
    /\ UNCHANGED chatRequestVars
    /\ UNCHANGED chunkVars
    /\ UNCHANGED envVars

\* createEmbeddings: the insert of the chunk row, and the step of the for-of loop
InsertChunk(w) ==
    /\ upc[w] = "insertChunk"
    /\ \E outcome \in {"ok", "error"} :
          LET i == uloc[w].i
              row == ChunkRow(NewId(document_embeddings), uloc[w].document.id, i - 1,
                              uloc[w].chunks[i], uloc[w].embedding)
              next == UploadDocumentNext("insertChunk", outcome, i < Len(uloc[w].chunks))
          IN  /\ IF outcome = "ok"
                 THEN /\ document_embeddings' = document_embeddings \cup {row}
                      /\ uobs' = [uobs EXCEPT ![w] =
                            [UObserved(w, "insert_chunk", FALSE) EXCEPT !.rows = Append(@, row.id)]]
                 ELSE /\ document_embeddings' = document_embeddings
                      /\ uobs' = [uobs EXCEPT ![w] = UObserved(w, "insert_chunk", TRUE)]
              /\ uloc' = [uloc EXCEPT ![w].i = IF next = "embedChunk" THEN i + 1 ELSE @]
              /\ UploadAdvance(w, "insertChunk", next, "insert error")
    /\ UNCHANGED <<documents, ureq>>
    /\ UNCHANGED chatRequestVars
    /\ UNCHANGED chunkVars
    /\ UNCHANGED envVars

NextIngest ==
    \E w \in Uploads :
        \/ UploadRequest(w)
        \/ CallUploadDocument(w)
        \/ InsertDocument(w)
        \/ DescribeImage(w)
        \/ LoadFile(w)
        \/ UpdateContent(w)
        \/ EmbedChunk(w)
        \/ InsertChunk(w)

\* An upload and a chat turn at the same time, over the same store
NextMixed ==
    \/ \E p \in Senders :
          \/ SendMessage(p)
          \/ AddUserMessage(p)
          \/ TouchAfterUser(p)
          \/ GetChatRow(p)
          \/ GetChatMessages(p)
          \/ EmbedQuery(p)
          \/ MatchEmbeddings(p)
          \/ Generate(p)
          \/ AddAiMessage(p)
          \/ TouchAfterAi(p)
    \/ \E w \in Uploads :
          \/ UploadRequest(w)
          \/ CallUploadDocument(w)
          \/ InsertDocument(w)
          \/ DescribeImage(w)
          \/ LoadFile(w)
          \/ UpdateContent(w)
          \/ EmbedChunk(w)
          \/ InsertChunk(w)

SpecMixed == Init /\ [][NextMixed]_vars

InitIngest == ChatInit /\ ChunkIdle /\ UploadIdle /\ EnvAny

SpecIngest == InitIngest /\ [][NextIngest]_vars

----------------------------------------------------------------------------
(* Properties of the chat path *)

Issued(p, event) == \E i \in 1..Len(obs[p].trace) : obs[p].trace[i] = event

\* t occurs in s as a contiguous piece
Contains(s, t) == \E i \in 1..(Len(s) - Len(t) + 1) : SubSeq(s, i, i + Len(t) - 1) = t

UserEntry(p) == [role |-> "user", content |-> req[p].message]

\* C1: the messages sent to the generative model are the system instruction with
\* the context, then the messages the chat held before this call in creation
\* order, then the new user message, which so occurs once after the history.
C1_PromptIsHistoryThenNewMessage ==
    \A p \in Procs :
        Issued(p, "generate") =>
            loc[p].prompt = <<SystemMessage(loc[p].context)>>
                                \o PreviousMessages(obs[p].history) \o <<UserEntry(p)>>

\* C2: whenever the query embedding, the similarity query or the generation has
\* been requested, the user message was inserted earlier in the same call and is
\* stored in the request's chat with the submitted text as content.
C2_UserMessagePersistedFirst ==
    \A p \in Procs :
        \A i \in 1..Len(obs[p].trace) :
            obs[p].trace[i] \in {"embed", "rpc", "generate"} =>
                /\ \E j \in 1..(i - 1) : obs[p].trace[j] = "insert_user"
                /\ loc[p].savedUserMessage \in chat_messages
                /\ loc[p].savedUserMessage.role = "user"
                /\ loc[p].savedUserMessage.chat_id = req[p].chatId
                /\ loc[p].savedUserMessage.content = req[p].message

C2_Witness ==
    \E p \in Procs : Issued(p, "embed") /\ Issued(p, "rpc") /\ Issued(p, "generate")

\* C3: after a retrieval failure (no document, the embedding call failed, the
\* similarity query returned an error) the context is empty and the call is at
\* the generation step or has invoked the model with the empty context; it has
\* not been aborted.
C3_RetrievalFailureContinues ==
    \A p \in Procs :
        obs[p].retrieval \in {"no_document", "embed_failed", "rpc_error"} =>
            /\ loc[p].context = <<>>
            /\ \/ pc[p] = "generate"
               \/ /\ Issued(p, "generate")
                  /\ loc[p].prompt[1] = SystemMessage(<<>>)

C3_Witness ==
    /\ \E p \in Procs : obs[p].retrieval = "embed_failed" /\ obs[p].generation = "ok"
    /\ \E p \in Procs : obs[p].retrieval = "rpc_error" /\ obs[p].generation = "ok"

\* C4: after a failed generation the request has ended with the failure response,
\* no assistant message of this call is stored, and the user message of the call
\* is still stored.
C4_GenerationFailureFailsTurn ==
    \A p \in Procs :
        obs[p].generation = "failed" =>
            /\ pc[p] = "done"
            /\ res[p] = FailureResponse
            /\ loc[p].savedAiMessage = Null
            /\ ~\E m \in chat_messages : m.id \in obs[p].inserted /\ m.role = "assistant"
            /\ loc[p].savedUserMessage \in chat_messages

C4_Witness ==
    \E p \in Procs : obs[p].generation = "failed" /\ pc[p] = "done"

\* C5: whenever sendMessage has answered success, the assistant message with the
\* model's output is stored in the chat, created after the user message of the
\* call, the response carries the two stored messages, and the chat's updated_at
\* has changed since the call began.
C5_SuccessPersistsAndTouches ==
    \A p \in Procs :
        (res[p] # Null /\ res[p].success) =>
            LET u == loc[p].savedUserMessage
                a == loc[p].savedAiMessage
            IN  /\ u \in chat_messages
                /\ a \in chat_messages
                /\ a.role = "assistant"
                /\ a.chat_id = req[p].chatId
                /\ a.content = loc[p].aiResponse
                /\ a.created_at > u.created_at
                /\ res[p].data = [userMessage |-> u, aiMessage |-> a]
                /\ \A c \in chats :
                      c.id = req[p].chatId => c.updated_at \notin obs[p].updatedAtStart

\* C6: the similarity query is issued with the document id of the request's chat,
\* every row it returns belongs to that document, and the context contains the
\* text of no chunk of another document.
C6_RetrievalScopedToChatDocument ==
    \A p \in Procs :
        loc[p].chat # Null =>
            /\ loc[p].chat.id = req[p].chatId
            /\ loc[p].rpcParams # Null =>
                  loc[p].rpcParams.document_id = loc[p].chat.document_id
            /\ \A i \in 1..Len(loc[p].data) :
                  loc[p].data[i].document_id = loc[p].chat.document_id
            /\ \A r \in document_embeddings :
                  r.document_id # loc[p].chat.document_id =>
                      ~Contains(loc[p].context, r.content)

\* a query whose vector is as close to a chunk of another document as to the
\* chunks it returned
C6_Witness ==
    \E p \in Procs :
        /\ Len(loc[p].data) > 0
        /\ \E r \in document_embeddings :
              /\ r.document_id # loc[p].chat.document_id
              /\ r.embedding = loc[p].queryEmbedding

\* C7: the similarity query is issued with threshold 0.7 and count 5; the context
\* is the join of the texts of the rows returned, at most 5, each of similarity
\* at least 0.7 to the query.
C7_ContextWithinThresholdAndCount ==
    \A p \in Procs :
        /\ loc[p].rpcParams # Null =>
              /\ loc[p].rpcParams.match_threshold = 7
              /\ loc[p].rpcParams.match_count = 5
              /\ loc[p].rpcParams.query_embedding = loc[p].queryEmbedding
        /\ Len(loc[p].data) <= 5
        /\ \A i \in 1..Len(loc[p].data) :
              CosineAtLeast(loc[p].queryEmbedding, loc[p].data[i].embedding, 7)
        /\ loc[p].context =
              JoinSeq([i \in 1..Len(loc[p].data) |-> loc[p].data[i].content], <<"\n", "\n">>)

\* five rows returned where six chunks of the document reach the threshold
C7_Witness ==
    \E p \in Procs :
        /\ Len(loc[p].data) = 5
        /\ Cardinality({r \in document_embeddings :
              /\ r.document_id = loc[p].documentId
              /\ CosineAtLeast(loc[p].queryEmbedding, r.embedding, 7)}) > 5

\* C8: when the similarity query returns no row and no error, the context is the
\* empty string, the call goes on to the generative model with a system
\* instruction whose context section is empty, and it answers success with the
\* assistant message once the generation and the insert of the reply succeed.
C8_NoMatchIsEmptyContextNotError ==
    \A p \in Procs :
        (obs[p].retrieval = "ok" /\ loc[p].data = <<>>) =>
            /\ loc[p].context = <<>>
            /\ \/ pc[p] = "generate"
               \/ /\ Issued(p, "generate")
                  /\ loc[p].prompt[1].content = SystemPrefix \o SystemSuffix
            /\ (pc[p] = "done" /\ loc[p].savedAiMessage # Null) =>
                  /\ res[p].success
                  /\ res[p].data.aiMessage = loc[p].savedAiMessage
                  /\ res[p].data.aiMessage.role = "assistant"

C8_Witness ==
    \E p \in Procs :
        /\ obs[p].retrieval = "ok"
        /\ loc[p].data = <<>>
        /\ pc[p] = "done"
        /\ res[p].success

\* C9: the chunk texts of the context are in non-increasing order of similarity
\* to the query, chunks of equal similarity in ascending order of their position
\* in the document, and consecutive texts are separated by one blank line.
C9_ContextOrderedBySimilarityThenOrdinal ==
    \A p \in Procs :
        obs[p].retrieval = "ok" =>
            LET q == loc[p].queryEmbedding
                data == loc[p].data
            IN  /\ \A i, j \in 1..Len(data) :
                      i < j =>
                          /\ ~CosineGreater(q, data[j].embedding, data[i].embedding)
                          /\ ~CosineGreater(q, data[i].embedding, data[j].embedding)
                                => data[i].pos < data[j].pos
                /\ loc[p].context =
                      JoinSeq([i \in 1..Len(data) |-> data[i].content], <<"\n", "\n">>)

----------------------------------------------------------------------------
(* Properties of the chunker *)

RECURSIVE NormalizeFrom(_, _)
\* t from position i on, every whitespace run that follows '.', '!' or '?' written
\* as one space
NormalizeFrom(t, i) ==
    IF i > Len(t) THEN <<>>
    ELSE IF i > 1 /\ t[i - 1] \in Punctuation /\ t[i] \in Whitespace
         THEN <<" ">> \o NormalizeFrom(t, RunEnd(t, i))
         ELSE <<t[i]>> \o NormalizeFrom(t, i + 1)

NormalizeSeparators(t) == NormalizeFrom(t, 1)

\* t ends in a whitespace run that follows '.', '!' or '?'
EndsInSeparator(t) ==
    \E i \in 2..Len(t) :
        /\ t[i - 1] \in Punctuation
        /\ \A k \in i..Len(t) : t[k] \in Whitespace

\* C10 as claimed: the chunks joined by a single space are the text.
C10_JoinReproducesText ==
    cpc = "done" => JoinSeq(chunks, <<" ">>) = text

\* C10 as amended: the chunks joined by a single space are the text with every
\* whitespace run that follows '.', '!' or '?' written as one space; when the text
\* ends in such a run, its space is kept if the chunk before it was no longer than
\* the target size and is dropped if that chunk was longer.
C10_JoinReproducesNormalizedText ==
    cpc = "done" =>
        LET joined == JoinSeq(chunks, <<" ">>)
            normal == NormalizeSeparators(text)
        IN  IF EndsInSeparator(text)
            THEN \/ joined = normal /\ Len(chunks[Len(chunks)]) - 1 <= chunkSize
                 \/ joined \o <<" ">> = normal /\ Len(chunks[Len(chunks)]) > chunkSize
            ELSE joined = normal

\* several chunks out of a text whose separators are not all single spaces
C10_Witness ==
    /\ cpc = "done"
    /\ Len(chunks) >= 2
    /\ NormalizeSeparators(text) # text
    /\ JoinSeq(chunks, <<" ">>) = NormalizeSeparators(text)

\* a text ending in a separator whose space is dropped
C10_WitnessDropped ==
    /\ cpc = "done"
    /\ EndsInSeparator(text)
    /\ JoinSeq(chunks, <<" ">>) \o <<" ">> = NormalizeSeparators(text)

\* C11: every returned chunk that is not one single sentence longer than the
\* target size is at most the target size long.
C11_ChunkSizeBound ==
    cpc = "done" =>
        \A i \in 1..Len(chunks) :
            \/ Len(chunks[i]) <= chunkSize
            \/ /\ Len(chunks[i]) > chunkSize
               /\ \E k \in 1..Len(sentences) : sentences[k] = chunks[i]

RECURSIVE Grouped(_, _, _)
\* the chunks cs are the sentences ss in order, cut into consecutive groups, each
\* group joined by single spaces, with a sentence longer than size alone in its
\* group; sentences left over hold no character
Grouped(ss, cs, size) ==
    IF cs = <<>> THEN \A i \in 1..Len(ss) : ss[i] = <<>>
    ELSE \E k \in 1..Len(ss) :
            /\ JoinSeq(SubSeq(ss, 1, k), <<" ">>) = cs[1]
            /\ k = 1 \/ \A i \in 1..k : Len(ss[i]) <= size
            /\ Grouped(SubSeq(ss, k + 1, Len(ss)), Tail(cs), size)

\* C12: every sentence of the text is whole in exactly one chunk, the sentences
\* keep their order over the chunk sequence, none is dropped or repeated, and a
\* sentence longer than the target size is a chunk of its own.
C12_SentencesKeptWhole ==
    cpc = "done" => Grouped(sentences, chunks, chunkSize)

\* a sentence longer than the target size among several chunks
C12_Witness ==
    /\ cpc = "done"
    /\ Len(chunks) >= 2
    /\ \E k \in 1..Len(sentences) :
          /\ Len(sentences[k]) > chunkSize
          /\ \E i \in 1..Len(chunks) : chunks[i] = sentences[k]
    /\ \E i \in 1..Len(chunks) : \A k \in 1..Len(sentences) : chunks[i] # sentences[k]

RECURSIVE Greedy(_, _, _)
\* at every cut between two chunks, the chunk before the cut and the sentence
\* after it are together longer than size, and that sentence opens the next chunk
Greedy(ss, cs, size) ==
    IF Len(cs) <= 1 THEN TRUE
    ELSE \E k \in 1..(Len(ss) - 1) :
            /\ JoinSeq(SubSeq(ss, 1, k), <<" ">>) = cs[1]
            /\ Len(cs[1]) + Len(ss[k + 1]) > size
            /\ Len(ss[k + 1]) <= Len(cs[2])
            /\ SubSeq(cs[2], 1, Len(ss[k + 1])) = ss[k + 1]
            /\ Greedy(SubSeq(ss, k + 1, Len(ss)), Tail(cs), size)

\* C13: a chunk is closed only when the next sentence would exceed the limit: for
\* consecutive chunks, the length of the first plus the length of the first
\* sentence of the second is above the target size, and that sentence is the one
\* that follows the first chunk's sentences in the text.
C13_GreedyAccumulation ==
    cpc = "done" => Greedy(sentences, chunks, chunkSize)

\* three chunks, one of them holding two sentences
C13_Witness ==
    /\ cpc = "done"
    /\ Len(chunks) >= 2
    /\ Len(sentences) > Len(chunks)
    /\ sentences[Len(sentences)] # <<>>

\* C14 as claimed: a text of 50 sentences of 50 characters at size 1000 gives three
\* chunks, none longer than 1000, which joined by a single space are the text.
C14_ThreeChunksReproduceText ==
    cpc = "done" =>
        /\ Len(chunks) = 3
        /\ \A i \in 1..Len(chunks) : Len(chunks[i]) <= 1000
        /\ JoinSeq(chunks, <<" ">>) = text

\* C14 as amended: such a text gives three chunks, none longer than 1000; joined
\* by a single space they are the text when the separator after each sentence is
\* one space.
C14_ThreeChunksReproduceSpacedText ==
    cpc = "done" =>
        /\ Len(chunks) = 3
        /\ \A i \in 1..Len(chunks) : Len(chunks[i]) <= 1000
        /\ (\A i \in 1..Len(text) : text[i] \in Whitespace => text[i] = " ")
              => JoinSeq(chunks, <<" ">>) = text

\* the three chunks of a text with single spaces
C14_Witness ==
    /\ cpc = "done"
    /\ Len(text) = 2500
    /\ Len(sentences) >= 50
    /\ \A i \in 1..Len(text) : text[i] # "\n"
    /\ Len(chunks) = 3
    /\ JoinSeq(chunks, <<" ">>) = text

----------------------------------------------------------------------------
(* Properties of ingestion *)

UIssued(w, event) == \E i \in 1..Len(uobs[w].trace) : uobs[w].trace[i] = event

\* the upload is over and uploadDocument was called
UploadOver(w) == upc[w] = "done" /\ UIssued(w, "insert_document")

\* uploadDocument returned its document to the caller
UploadReturned(w) ==
    /\ UploadOver(w)
    /\ \/ ureq[w].via = "endpoint" /\ ures[w].status = 201
       \/ ureq[w].via = "direct" /\ "returned" \in DOMAIN ures[w]

\* uploadDocument threw to its caller, and the caller saw a failure
UploadFailed(w) ==
    /\ UploadOver(w)
    /\ \/ ureq[w].via = "endpoint" /\ ures[w] = UploadFailureResponse
       \/ ureq[w].via = "direct" /\ "thrown" \in DOMAIN ures[w]

RECURSIVE SortById(_)
SortById(rows) ==
    IF rows = {} THEN <<>>
    ELSE LET first == CHOOSE r \in rows : \A o \in rows : r.id <= o.id
         IN  <<first>> \o SortById(rows \ {first})

\* the stored chunk rows of a document, in the order they were stored
StoredChunks(documentId) ==
    SortById({r \in document_embeddings : r.document_id = documentId})

\* the chunk sequence of the text the upload extracted
CutOf(w) == splitTextIntoChunks(uloc[w].textContent, EmbeddingChunkSize)

\* C15: when createEmbeddings has completed for a text that chunks into N chunks,
\* the document has exactly N stored rows; taken in the order they were stored,
\* row i holds chunk i of the chunk sequence, and its vector is the one the
\* embedding call made for chunk i returned.
C15_RowsAlignedWithChunks ==
    \A w \in Uploads :
        UploadReturned(w) =>
            LET cut == CutOf(w)
                rows == StoredChunks(uloc[w].document.id)
                calls == uobs[w].embedded
            IN  /\ Len(rows) = Len(cut)
                /\ Len(calls) = Len(cut)
                /\ \A i \in 1..Len(cut) :
                      /\ rows[i].content = cut[i]
                      /\ calls[i].input = cut[i]
                      /\ rows[i].embedding = calls[i].embedding

\* C15 witness: an upload has returned for a text of three chunks, the first of
\* two sentences, and the embedding calls did not all return the same vector
C15_Witness ==
    \E w \in Uploads :
        /\ UploadReturned(w)
        /\ Len(CutOf(w)) = 3
        /\ Len(CutOf(w)[1]) = 901
        /\ Cardinality({r \in document_embeddings : r.document_id = uloc[w].document.id}) = 3
        /\ uobs[w].embedded[1].embedding # uobs[w].embedded[2].embedding

\* C16: an upload whose embedding call or chunk insert failed ends in a failure to
\* the caller (the endpoint answers 500, a direct call gets the error thrown); and
\* when the caller is told of success, every chunk of the document's text was
\* given to the embedding model and is stored as a row of the document.
C16_SuccessOnlyWhenAllChunksStored ==
    \A w \in Uploads :
        /\ (UploadOver(w) /\ uobs[w].failedAt \in {"embed", "insert_chunk"}) =>
               /\ UploadFailed(w)
               /\ ~UploadReturned(w)
        /\ UploadReturned(w) =>
               /\ uobs[w].failedAt = "none"
               /\ \A i \in 1..Len(CutOf(w)) :
                     /\ \E k \in 1..Len(uobs[w].embedded) :
                            uobs[w].embedded[k].input = CutOf(w)[i]
                     /\ \E r \in document_embeddings :
                            /\ r.document_id = uloc[w].document.id
                            /\ r.content = CutOf(w)[i]

\* C16 witness: an upload request of a three-chunk text was answered with the
\* failure response after the insert of its second chunk failed
C16_Witness ==
    \E w \in Uploads :
        /\ UploadOver(w)
        /\ ureq[w].via = "endpoint"
        /\ uobs[w].failedAt = "insert_chunk"
        /\ Len(CutOf(w)) = 3
        /\ Len(uobs[w].rows) = 1
        /\ ures[w] = UploadFailureResponse

\* C17: once an upload is over, whether uploadDocument returned or threw, the
\* document it inserted has no stored chunk at all, or one row for each chunk of
\* its text, in the order of the chunk sequence.
C17_CompleteOrAbsent ==
    \A w \in Uploads :
        (UploadOver(w) /\ uloc[w].document # Null) =>
            LET rows == StoredChunks(uloc[w].document.id)
            IN  \/ rows = <<>>
                \/ /\ Len(rows) = Len(CutOf(w))
                   /\ \A i \in 1..Len(rows) : rows[i].content = CutOf(w)[i]

\* C18: when the loader or the vision call has failed, the caller sees the failure
\* and the documents table holds no row for the upload.
C18_ExtractionFailureLeavesNoDocument ==
    \A w \in Uploads :
        (UploadOver(w) /\ uobs[w].failedAt \in {"load", "describe"}) =>
            /\ UploadFailed(w)
            /\ ~\E d \in documents : d.id = uloc[w].document.id

\* the media types the ingestion input set names: plain text, PDF, .doc, .docx,
\* PNG and JPEG (image/jpg being JPEG under another name)
RecognizedTypes == {TextType, PdfType, DocType, DocxType,
                    "image/png", "image/jpeg", "image/jpg"}

\* uploadDocument made no embedding call and stored no chunk
NothingEmbedded(w) ==
    /\ ~UIssued(w, "embed")
    /\ uobs[w].embedded = <<>>
    /\ uobs[w].rows = <<>>
    /\ uloc[w].document # Null =>
           ~\E r \in document_embeddings : r.document_id = uloc[w].document.id

IngestionTypes == {TextType, PdfType, DocType, DocxType, "image/png", "image/jpeg"}

\* C20: an upload request that carries a file of a media type of the ingestion
\* input set passes the file filter and reaches uploadDocument; an image is then
\* described by the vision model and a document goes through its loader.
C20_IngestionTypesAccepted ==
    \A w \in Uploads :
        (upc[w] = "done" /\ ureq[w].via = "endpoint" /\ ureq[w].file # NoFile
            /\ ureq[w].mimetype \in IngestionTypes) =>
            /\ ures[w] # FilterRejection
            /\ UIssued(w, "insert_document")
            /\ uloc[w].document # Null =>
                   IF isImageFile(ureq[w].mimetype)
                   THEN UIssued(w, "describe") ELSE UIssued(w, "load")

----------------------------------------------------------------------------
(* Properties of the chat endpoints *)

\* the operation a request asks for
Op(p) ==
    IF "op" \in DOMAIN req[p] THEN req[p].op
    ELSE IF "message" \in DOMAIN req[p] THEN "sendMessage"
    ELSE "none"

\* the request lacks a required input: the document id of a create-chat request,
\* the message of a send-message request
LacksInput(p) ==
    \/ Op(p) = "createChat" /\ req[p].documentId = NoDocument
    \/ Op(p) = "sendMessage" /\ req[p].message = <<>>

\* C21: a create-chat request without a document id and a send-message request
\* without message content are answered 400 with success false, and such a
\* request has issued no store read or write, no embedding call and no
\* generation call; no other create-chat or send-message request is answered 400.
C21_ValidationBeforeAnyCall ==
    \A p \in Procs :
        /\ LacksInput(p) =>
               /\ pc[p] = "done"
               /\ res[p].status = 400
               /\ res[p].success = FALSE
               /\ obs[p].trace = <<>>
               /\ obs[p].inserted = {}
        /\ (Op(p) \in {"createChat", "sendMessage"} /\ pc[p] = "done" /\ res[p].status = 400)
               => LacksInput(p)

\* C21 witness: a send-message request without a message and a create-chat
\* request without a document id have both been answered 400
C21_Witness ==
    \E p, q \in Procs :
        /\ Op(p) = "sendMessage" /\ req[p].message = <<>>
        /\ res[p] = ValidationResponse
        /\ Op(q) = "createChat" /\ req[q].documentId = NoDocument
        /\ res[q] = CreateValidationResponse

\* the chat the request names does not exist or belongs to another user
MissingOrForeign(p) ==
    ~\E c \in chats : c.id = req[p].chatId /\ c.user_id = req[p].userId

\* C22: a sendMessage on a chat that does not exist or is not the caller's ends in
\* the failure response, has stored no message in that chat, and the chat's
\* updated_at is what it was when the request began.
C22_NoPartialStateOnForeignChat ==
    \A p \in Procs :
        (Op(p) = "sendMessage" /\ req[p].message # <<>> /\ MissingOrForeign(p)
            /\ pc[p] = "done") =>
            /\ res[p] = FailureResponse
            /\ obs[p].inserted = {}
            /\ ~\E m \in chat_messages : m.chat_id = req[p].chatId /\ m.id \in obs[p].inserted
            /\ {c.updated_at : c \in {x \in chats : x.id = req[p].chatId}}
                   = obs[p].updatedAtStart

\* C23: in every state, each chat's updated_at is greater than or equal to the
\* created_at of every message of the chat.
C23_UpdatedAtCoversNewestMessage ==
    \A c \in chats :
        \A m \in MessagesOfChat(c.id) : c.updated_at >= m.created_at

\* C24: every chunk row an upload has stored carries an ordinal, and the ordinals
\* of the document's rows, taken in the order of the chunk sequence, are 0, 1, 2, ...
C24_OrdinalsContiguous ==
    \A w \in Uploads :
        uloc[w].document # Null =>
            LET rows == StoredChunks(uloc[w].document.id)
            IN  \A i \in 1..Len(rows) :
                   /\ rows[i].content = CutOf(w)[i]
                   /\ rows[i].ordinal = <<i - 1>>

\* the response says the request failed
IsFailure(r) == "status" \in DOMAIN r /\ r.status >= 400

\* the fixed messages of the failure responses
FailureMessages ==
    {"Message content is required", "Failed to process message",
     "Document ID is required", "Failed to create chat",
     "Chat ID and User ID are required", "Unauthorized or chat not found",
     "Failed to delete chat", "No PDF file uploaded", "Failed to upload document"}

\* success false, a fixed message, and the error text only in development
StructuredFailure(r) ==
    /\ {"status", "success", "message"} \subseteq DOMAIN r
    /\ DOMAIN r \subseteq {"status", "success", "message", "error"}
    /\ r.success = FALSE
    /\ r.message \in FailureMessages
    /\ "error" \in DOMAIN r => NODE_ENV = "development"

\* C25: every failure response of a chat endpoint and of the upload endpoint is a
\* structured result with success false and a fixed message, and it carries the
\* error text only when NODE_ENV is 'development'.
C25_FailuresStructuredWithoutDetail ==
    /\ \A p \in Procs : IsFailure(res[p]) => StructuredFailure(res[p])
    /\ \A w \in Uploads :
          (upc[w] = "done" /\ ureq[w].via = "endpoint" /\ IsFailure(ures[w])) =>
              StructuredFailure(ures[w])

\* C26: a sendMessage in which a store call of processMessage returned an error
\* (the insert of the user or of the assistant message, the update of the chat's
\* updated_at, the read of the chat or of its messages) ends in the failure
\* response.
C26_StoreFailureFailsTurn ==
    \A p \in Procs :
        (Op(p) = "sendMessage" /\ pc[p] = "done" /\ obs[p].failed # {}) =>
            res[p] = FailureResponse

----------------------------------------------------------------------------
(* Determinism of the chunker *)

----------------------------------------------------------------------------
(* Write scoping *)

\* the requests and the uploads that take the step
StepOfRequest(p) == pc'[p] # pc[p]
StepOfUpload(w) == upc'[w] # upc[w]

\* what a step may do to the chat tables: add messages to the chat of a request
\* that takes the step, and change the chat row of such a request only
ChatWritesScoped ==
    /\ chat_messages \subseteq chat_messages'
    /\ \A m \in chat_messages' \ chat_messages :
          \E p \in Procs : StepOfRequest(p) /\ m.chat_id = req[p].chatId
    /\ {c.id : c \in chats'} = {c.id : c \in chats}
    /\ \A c \in chats \ chats' :
          \E p \in Procs : StepOfRequest(p) /\ c.id = req[p].chatId

\* what a step may do to the document tables: add the document of an upload
\* that takes the step, change that document's row, and add chunk rows under it
DocumentWritesScoped ==
    /\ document_embeddings \subseteq document_embeddings'
    /\ \A r \in document_embeddings' \ document_embeddings :
          \E w \in Uploads : StepOfUpload(w) /\ r.document_id = uloc[w].document.id
    /\ {d.id : d \in documents} \subseteq {d.id : d \in documents'}
    /\ \A d \in documents' \ documents :
          \E w \in Uploads : StepOfUpload(w) /\ d.id = uloc'[w].document.id
    /\ \A d \in documents \ documents' :
          \E w \in Uploads : StepOfUpload(w) /\ d.id = uloc[w].document.id

\* C28: under every interleaving of an upload and a chat turn, each step writes
\* within its own operation: an upload adds chunk rows only under its document
\* and changes only its document's row, a sendMessage adds messages only to its
\* chat and changes only its chat's row, an upload touches no chat table and a
\* chat turn no document table.
C28_WritesScoped ==
    [][/\ ChatWritesScoped
       /\ DocumentWritesScoped
       /\ (\E w \in Uploads : StepOfUpload(w)) =>
              chats' = chats /\ chat_messages' = chat_messages
       /\ (\E p \in Procs : StepOfRequest(p)) =>
              documents' = documents /\ document_embeddings' = document_embeddings]_vars

\* C28 witness: an upload has stored a chunk and has chunks left to store, while
\* a chat turn has stored its user message and changed updated_at and is not over
C28_Witness ==
    \E w \in Uploads, p \in Procs :
        /\ upc[w] = "embedChunk"
        /\ Len(uobs[w].rows) >= 1
        /\ pc[p] \notin {"idle", "done"}
        /\ obs[p].inserted # {}
        /\ \E c \in chats : c.id = req[p].chatId /\ {c.updated_at} # obs[p].updatedAtStart

----------------------------------------------------------------------------
(* Concurrent chat turns *)

\* the request was answered with success
Succeeded(p) == pc[p] = "done" /\ Op(p) = "sendMessage" /\ res[p].status = 200

\* C29: when two sendMessage requests on the same chat have both succeeded, the
\* chat holds the user message and the assistant message of each of them, four
\* rows in all, and each assistant message was created after the user message of
\* its own request.
C29_ConcurrentTurnsLoseNoMessage ==
    \A p, q \in Procs :
        (p # q /\ Succeeded(p) /\ Succeeded(q) /\ req[p].chatId = req[q].chatId) =>
            LET up == res[p].data.userMessage
                ap == res[p].data.aiMessage
                uq == res[q].data.userMessage
                aq == res[q].data.aiMessage
            IN  /\ {up, ap, uq, aq} \subseteq MessagesOfChat(req[p].chatId)
                /\ Cardinality({up.id, ap.id, uq.id, aq.id}) = 4
                /\ up.role = "user" /\ up.content = req[p].message
                /\ uq.role = "user" /\ uq.content = req[q].message
                /\ ap.role = "assistant" /\ aq.role = "assistant"
                /\ ap.created_at > up.created_at
                /\ aq.created_at > uq.created_at

\* C29 witness: two requests on chat 1 have both succeeded, and the user message
\* of one was stored between the two messages of the other
C29_Witness ==
    \E p, q \in Procs :
        /\ p # q /\ Succeeded(p) /\ Succeeded(q)
        /\ req[p].chatId = 1 /\ req[q].chatId = 1
        /\ res[p].data.userMessage.created_at < res[q].data.userMessage.created_at
        /\ res[q].data.userMessage.created_at < res[p].data.aiMessage.created_at

----------------------------------------------------------------------------
(* deleteChat *)

\* the request was answered with this status
Answered(p, status) == "status" \in DOMAIN res[p] /\ res[p].status = status

\* the chats a successful create-chat request of the run has added
CreatedChats ==
    {res[q].data : q \in {x \in Procs : Op(x) = "createChat" /\ Answered(x, 201)}}

\* the request names a chat that at no time of the run was a chat of its caller
NeverOwn(p) ==
    \A c \in InitChats \cup CreatedChats :
        ~(c.id = req[p].chatId /\ c.user_id = req[p].userId)

\* a finished deleteChat request: without a caller it was refused; for a chat
\* that never was the caller's it failed; after success the chat is gone
DeleteAnswered ==
    \A p \in Procs :
        (Op(p) = "deleteChat" /\ pc[p] = "done") =>
            /\ NeverOwn(p) => IsFailure(res[p]) /\ res[p].success = FALSE
            /\ res[p].status = 200 =>
                   /\ ~NeverOwn(p)
                   /\ OwnChatRows(req[p].chatId, req[p].userId) = {}

\* a step removes a chat row only as the delete of a deleteChat request for that
\* id made by the chat's owner, and a delete that succeeds removes that row
DeleteStep ==
    /\ \A c \in chats :
          (c.id \notin {x.id : x \in chats'}) =>
              \E p \in Procs :
                  /\ pc[p] = "delDelete" /\ StepOfRequest(p)
                  /\ c.id = req[p].chatId /\ c.user_id = req[p].userId
    /\ \A p \in Procs :
          (pc[p] = "delDelete" /\ StepOfRequest(p) /\ res'[p].status = 200) =>
              chats' = chats \ OwnChatRows(req[p].chatId, req[p].userId)
    /\ \A p \in Procs :
          (pc[p] \in {"delGetChat", "delGetMessages"} /\ StepOfRequest(p)) => chats' = chats

\* C30: deleteChat removes a chat only for its owner: a request for a chat id that
\* names no chat of the caller ends in a failure response and removes nothing;
\* a request that succeeds has removed the chat with that id and owner, and no
\* other chat.
C30_DeleteOnlyOwnChat == []DeleteAnswered /\ [][DeleteStep]_vars

\* C30 witness: one deleteChat has removed chat 1 for its owner, and another,
\* for the chat of another user, has failed with that chat still stored
C30_Witness ==
    \E p, q \in Procs :
        /\ Op(p) = "deleteChat" /\ req[p].chatId = 1 /\ Answered(p, 200)
        /\ ~\E c \in chats : c.id = 1
        /\ Op(q) = "deleteChat" /\ req[q].chatId = 3 /\ pc[q] = "done"
        /\ res[q] = DeleteFailureResponse
        /\ \E c \in chats : c.id = 3

====
